---- MODULE Spec2Model ----
(***************************************************************************)
(* A model of bossy, a command line options parser (src/lib/index.js).     *)
(*                                                                         *)
(* JavaScript strings are sequences of one-character strings, so that      *)
(* arg[0], arg[1], slice, split and parseInt are computed character by     *)
(* character.  JavaScript values are tagged records [k |-> kind, v |-> x]. *)
(***************************************************************************)
EXTENDS Integers, Sequences, FiniteSets, TLC

(* ------------------------------------------------------------------ *)
(* JavaScript values                                                    *)
(* ------------------------------------------------------------------ *)
Undef == [k |-> "undefined", v |-> 0]
NaN == [k |-> "NaN", v |-> 0]
Bool(b) == [k |-> "boolean", v |-> b]
Str(s) == [k |-> "string", v |-> s]
Num(n) == [k |-> "number", v |-> n]
Arr(a) == [k |-> "array", v |-> a]

\* JavaScript truthiness of a value: undefined, NaN, false, '' and 0 are falsy.
Truthy(x) ==
    CASE x.k = "undefined" -> FALSE
      [] x.k = "NaN" -> FALSE
      [] x.k = "boolean" -> x.v
      [] x.k = "string" -> x.v # <<>>
      [] x.k = "number" -> x.v # 0
      [] OTHER -> TRUE

\* Strict equality (===) of two primitive values.
StrictEq(x, y) == x.k = y.k /\ x.k # "NaN" /\ x.v = y.v

Digits == {"0", "1", "2", "3", "4", "5", "6", "7", "8", "9"}

DigitVal(c) ==
    CASE c = "0" -> 0 [] c = "1" -> 1 [] c = "2" -> 2 [] c = "3" -> 3
      [] c = "4" -> 4 [] c = "5" -> 5 [] c = "6" -> 6 [] c = "7" -> 7
      [] c = "8" -> 8 [] c = "9" -> 9

DigitChar(n) ==
    CASE n = 0 -> "0" [] n = 1 -> "1" [] n = 2 -> "2" [] n = 3 -> "3"
      [] n = 4 -> "4" [] n = 5 -> "5" [] n = 6 -> "6" [] n = 7 -> "7"
      [] n = 8 -> "8" [] n = 9 -> "9"

\* s.slice(from) with a 0-based index.
Slice(s, from) == SubSeq(s, from + 1, Len(s))

\* The length of the maximal run of digits of s starting at 1-based position p.
RECURSIVE DigitRun(_, _)
DigitRun(s, p) ==
    IF p <= Len(s) /\ s[p] \in Digits THEN 1 + DigitRun(s, p + 1) ELSE 0

\* The value of a string of decimal digits.
RECURSIVE DecimalValue(_)
DecimalValue(s) ==
    IF s = <<>> THEN 0
    ELSE 10 * DecimalValue(SubSeq(s, 1, Len(s) - 1)) + DigitVal(s[Len(s)])

\* The number of leading white space characters of s from position p.
RECURSIVE SpaceRun(_, _)
SpaceRun(s, p) ==
    IF p <= Len(s) /\ s[p] = " " THEN 1 + SpaceRun(s, p + 1) ELSE 0

\* parseInt(s, 10): leading white space, an optional sign, then the longest
\* prefix of digits; NaN when there is no digit.  What follows is ignored.
ParseInt(s) ==
    LET p0 == 1 + SpaceRun(s, 1)
        signed == p0 <= Len(s) /\ s[p0] \in {"+", "-"}
        p1 == IF signed THEN p0 + 1 ELSE p0
        n == DigitRun(s, p1)
        mag == DecimalValue(SubSeq(s, p1, p1 + n - 1))
    IN  IF n = 0 THEN NaN
        ELSE IF signed /\ s[p0] = "-" THEN Num(0 - mag) ELSE Num(mag)

\* Hoek.isInteger(value): a number that is not NaN and has no fraction.
IsInteger(x) == x.k = "number"

\* s.split(c) for a one-character separator c: the pieces between occurrences.
RECURSIVE Split(_, _)
Split(s, c) ==
    IF \E j \in 1..Len(s) : s[j] = c
    THEN LET j == CHOOSE j \in 1..Len(s) : s[j] = c /\ \A q \in 1..(j - 1) : s[q] # c
         IN  <<SubSeq(s, 1, j - 1)>> \o Split(SubSeq(s, j + 1, Len(s)), c)
    ELSE <<s>>

\* s.split(''): one string per character.
Chars(s) == [j \in 1..Len(s) |-> <<s[j]>>]

\* a.join(sep) of a sequence of strings.
RECURSIVE Join(_, _)
Join(a, sep) ==
    IF a = <<>> THEN <<>>
    ELSE IF Len(a) = 1 THEN a[1]
    ELSE a[1] \o sep \o Join(Tail(a), sep)

\* The decimal digits of a natural number.
RECURSIVE NatToString(_)
NatToString(n) ==
    IF n < 10 THEN <<DigitChar(n)>>
    ELSE NatToString(n \div 10) \o <<DigitChar(n % 10)>>

\* String(x): the conversion the + and join operators apply to a value.
RECURSIVE JsString(_)
JsString(x) ==
    CASE x.k = "string" -> x.v
      [] x.k = "number" -> IF x.v < 0 THEN <<"-">> \o NatToString(0 - x.v)
                           ELSE NatToString(x.v)
      [] x.k = "boolean" -> IF x.v THEN <<"t", "r", "u", "e">>
                            ELSE <<"f", "a", "l", "s", "e">>
      [] x.k = "array" ->
            Join([j \in 1..Len(x.v) |-> JsString(x.v[j])], <<",">>)
      [] x.k = "NaN" -> <<"N", "a", "N">>
      [] OTHER -> <<"u", "n", "d", "e", "f", "i", "n", "e", "d">>

(* ------------------------------------------------------------------ *)
(* Definitions (the first argument of parse and usage)                  *)
(* ------------------------------------------------------------------ *)

\* One entry of a definition object as the caller writes it: key is the
\* property name; type "" stands for an absent type, an empty alias for an
\* absent alias, Undef for an absent default, valid or description.
Entry(key, alias, type, multiple, require, default, valid, description) ==
    [key |-> key, alias |-> alias, type |-> type, multiple |-> multiple,
     require |-> require, default |-> default, valid |-> valid,
     description |-> description]

OptionTypes == {"boolean", "range", "number", "string", "help"}

\* validKeyRegex: /^[a-zA-Z0-9][a-zA-Z0-9-]*$/ (the characters the model uses).
AlphaNum ==
    Digits \cup {"a", "b", "c", "d", "e", "f", "g", "h", "i", "j", "k", "l", "m",
                 "n", "o", "p", "q", "r", "s", "t", "u", "v", "w", "x", "y", "z",
                 "O", "P"}

ValidKey(key) ==
    /\ key # <<>>
    /\ key[1] \in AlphaNum
    /\ \A j \in 2..Len(key) : key[j] \in AlphaNum \cup {"-"}

\* Joi.assert(definition, Schemas.definition): whether the definition is accepted.
SchemaAccepts(definition) ==
    \A j \in 1..Len(definition) :
        /\ ValidKey(definition[j].key)
        /\ definition[j].type \in OptionTypes \cup {""}
        /\ definition[j].valid.k \in {"undefined", "array"}
        /\ definition[j].description.k \in {"undefined", "string"}

\* Joi.validate(definition, Schemas.definition).value: type defaults to 'string'.
Validate(definition) ==
    [j \in 1..Len(definition) |->
        [definition[j] EXCEPT !.type = IF @ = "" THEN "string" ELSE @]]

\* Object.keys(definition): the property names in order.
ObjectKeys(definition) == [j \in 1..Len(definition) |-> definition[j].key]

\* Hoek.clone(definition[name]) stamped with def.name = name.
CloneWithName(e) ==
    [name |-> e.key, alias |-> e.alias, type |-> e.type, multiple |-> e.multiple,
     require |-> e.require, default |-> e.default, valid |-> e.valid,
     description |-> e.description]

\* obj[key] = value on a plain object (a function from own keys to values).
Put(obj, key, value) ==
    [x \in DOMAIN obj \cup {key} |-> IF x = key THEN value ELSE obj[x]]

EmptyObject == [x \in {} |-> Undef]

\* keys[def.alias[a]] = def for every alias, in order.
RECURSIVE PutAliases(_, _, _)
PutAliases(keys, def, a) ==
    IF a > Len(def.alias) THEN keys
    ELSE PutAliases(Put(keys, def.alias[a], def), def, a + 1)

\* The loop that fills keys: every name and alias maps to the option's record.
RECURSIVE BuildKeys(_, _, _)
BuildKeys(definition, j, keys) ==
    IF j > Len(definition) THEN keys
    ELSE LET def == CloneWithName(definition[j])
         IN  BuildKeys(definition, j + 1, PutAliases(Put(keys, def.name, def), def, 1))

\* SeedFlags with the seed of a boolean option without a default inverted.
RECURSIVE SeedFlagsTrue(_, _, _)
SeedFlagsTrue(definition, j, flags) ==
    IF j > Len(definition) THEN flags
    ELSE LET def == definition[j]
         IN  SeedFlagsTrue(definition, j + 1,
                 IF def.type = "boolean" /\ def.default.k # "undefined"
                 THEN Put(flags, def.key, def.default)
                 ELSE IF def.type = "boolean"
                 THEN Put(flags, def.key, Bool(TRUE))
                 ELSE flags)

\* The loop's seeding of flags: a boolean option starts at its default, or false.
RECURSIVE SeedFlags(_, _, _)
SeedFlags(definition, j, flags) ==
    IF j > Len(definition) THEN flags
    ELSE LET def == definition[j]
         IN  SeedFlags(definition, j + 1,
                 IF def.type = "boolean" /\ def.default.k # "undefined"
                 THEN Put(flags, def.key, def.default)
                 ELSE IF def.type = "boolean"
                 THEN Put(flags, def.key, Bool(FALSE))
                 ELSE flags)

\* keys is a plain object ({}), so keys[opt] also finds what Object.prototype
\* provides.  These are functions: truthy, with a name and no other field.
InheritedKeys ==
    {<<"v", "a", "l", "u", "e", "O", "f">>,
     <<"t", "o", "S", "t", "r", "i", "n", "g">>,
     <<"h", "a", "s", "O", "w", "n", "P", "r", "o", "p", "e", "r", "t", "y">>}

FunctionObject(name) ==
    [name |-> name, alias |-> <<>>, type |-> "undefined", multiple |-> FALSE,
     require |-> FALSE, default |-> Undef, valid |-> Undef, description |-> Undef]

\* keys[opt]: <<def>> when the lookup gives a truthy value, <<>> when undefined.
KeysGet(keys, opt) ==
    IF opt \in DOMAIN keys THEN <<keys[opt]>>
    ELSE IF opt \in InheritedKeys THEN <<FunctionObject(opt)>>
    ELSE <<>>

(* ------------------------------------------------------------------ *)
(* The argument scanner of parse                                        *)
(* ------------------------------------------------------------------ *)

\* The message of internals.formatError called with more than one argument or
\* with one string: the arguments joined by single spaces.  A literal of the
\* source is kept as one element of the message.
FormatError(parts) == Join(parts, <<" ">>)

\* Splice with the item put before the current argument instead of after it.
SpliceBefore(args, at, item) ==
    SubSeq(args, 1, at - 1) \o <<item>> \o SubSeq(args, at, Len(args))

\* args.splice(at, 0, item): item inserted so that it gets 0-based index at.
Splice(args, at, item) ==
    SubSeq(args, 1, at) \o <<item>> \o SubSeq(args, at + 1, Len(args))

\* The state the scan loop carries from one token to the next.  last is <<>>
\* for null and <<def>> for a pending option; thrown is set by a TypeError.
ScanState(flags, errors, help, last, args, il, thrown) ==
    [flags |-> flags, errors |-> errors, help |-> help, last |-> last,
     args |-> args, il |-> il, thrown |-> thrown]

\* The loop over the option flags of one argument, from flag p on.
RECURSIVE ProcessOpts(_, _, _, _, _, _)
ProcessOpts(keys, arg, i, opts, p, st) ==
    IF p > Len(opts) THEN st
    ELSE IF st.last # <<>>
    THEN ProcessOpts(keys, arg, i, opts, p + 1,
             [st EXCEPT !.errors = Append(@,
                 FormatError(<<<<"Invalid option:">>, st.last[1].name,
                               <<"missing value">>>>))])
    ELSE LET opt == opts[p]
             found == KeysGet(keys, opt)
         IN  IF found = <<>>
             THEN ProcessOpts(keys, arg, i, opts, p + 1,
                      [st EXCEPT !.errors = Append(@,
                          FormatError(<<<<"Unknown option:">>, opt>>))])
             ELSE LET def == found[1]
                  IN  IF def.type = "help"
                      THEN ProcessOpts(keys, arg, i, opts, p + 1,
                               [st EXCEPT !.flags = Put(@, def.name, Bool(TRUE)),
                                          !.help = TRUE])
                      ELSE IF def.type = "boolean"
                      THEN ProcessOpts(keys, arg, i, opts, p + 1,
                               [st EXCEPT !.flags = Put(@, def.name, Bool(TRUE))])
                      ELSE IF def.type = "number" /\ Len(opts) > 1
                      THEN \* args.splice(i + 1, 0, arg.split(char)[1]); ++il; break
                           [st EXCEPT !.args = Splice(@, i + 1, Split(arg, arg[2])[2]),
                                      !.il = @ + 1,
                                      !.last = <<def>>]
                      ELSE ProcessOpts(keys, arg, i, opts, p + 1,
                               [st EXCEPT !.last = <<def>>])

\* The option flags of a key argument: "-abc" is three options, "--abc" is one.
OptsOf(arg) == IF arg[2] = "-" THEN <<Slice(arg, 2)>> ELSE Chars(Slice(arg, 1))

\* One argument that starts with '-'.
ScanKey(keys, arg, i, st) ==
    IF Len(arg) < 2
    THEN [st EXCEPT !.errors = Append(@, FormatError(<<<<"Invalid empty '-' option">>>>))]
    ELSE IF arg[2] = "-" /\ Len(arg) <= 2
    THEN [st EXCEPT !.errors = Append(@, FormatError(<<<<"Invalid empty '--' option">>>>))]
    ELSE ProcessOpts(keys, arg, i, OptsOf(arg), 1, st)

\* NotInValid with the membership test dropped: every value passes.
NotInValidNever(valid, value) == FALSE

\* last.valid.indexOf(value) === -1
NotInValid(valid, value) ==
    \A j \in 1..Len(valid.v) : ~StrictEq(valid.v[j], value)

\* Push with unshift in the place of push: the value is put first.
PushFront(st, name, value) ==
    IF st.flags[name].k = "array"
    THEN [st EXCEPT !.flags = Put(@, name, Arr(<<value>> \o @[name].v)),
                    !.last = <<>>]
    ELSE [st EXCEPT !.thrown = TRUE]

\* flags[name].push(value): a TypeError when flags[name] is not an array.
Push(st, name, value) ==
    IF st.flags[name].k = "array"
    THEN [st EXCEPT !.flags = Put(@, name, Arr(Append(@[name].v, value))),
                    !.last = <<>>]
    ELSE [st EXCEPT !.thrown = TRUE]

\* StoreValue without the rejection of a second value: the field is overwritten.
StoreValueOverwrite(st, name, multi, value) ==
    IF <<"h", "a", "s", "O", "w", "n", "P", "r", "o", "p", "e", "r", "t", "y">>
           \in DOMAIN st.flags
    THEN [st EXCEPT !.thrown = TRUE]
    ELSE IF name \in DOMAIN st.flags /\ multi
    THEN Push(st, name, value)
    ELSE IF multi
    THEN [st EXCEPT !.flags = Put(@, name, Arr(<<value>>)), !.last = <<>>]
    ELSE [st EXCEPT !.flags = Put(@, name, value), !.last = <<>>]

\* The value stored under name: appended or rejected when the field exists,
\* else stored as a one-element array (multi) or as it is; then last = null.
StoreValue(st, name, multi, value) ==
    IF <<"h", "a", "s", "O", "w", "n", "P", "r", "o", "p", "e", "r", "t", "y">>
           \in DOMAIN st.flags
    THEN \* flags.hasOwnProperty is shadowed by a stored value: not a function
         [st EXCEPT !.thrown = TRUE]
    ELSE IF name \in DOMAIN st.flags
    THEN IF multi
         THEN Push(st, name, value)
         ELSE [st EXCEPT !.errors = Append(@,
                  FormatError(<<<<"Multiple values are not allowed for option:">>,
                                name>>))]
    ELSE IF multi
    THEN [st EXCEPT !.flags = Put(@, name, Arr(<<value>>)), !.last = <<>>]
    ELSE [st EXCEPT !.flags = Put(@, name, value), !.last = <<>>]

\* ScanValueArg with last = null also on the two rejections.
ScanValueArgFrees(arg, st) ==
    LET pending == st.last # <<>>
        last == st.last[1]
        value == IF pending /\ last.type = "number" THEN ParseInt(arg) ELSE Str(arg)
        name == IF pending THEN last.name ELSE <<"_">>
        multi == ~pending \/ last.multiple
    IN  IF pending /\ last.type = "number" /\ ~IsInteger(value)
        THEN [st EXCEPT !.errors = Append(@,
                 FormatError(<<<<"Invalid value (non-number) for option:">>, last.name>>)),
                        !.last = <<>>]
        ELSE IF pending /\ Truthy(last.valid) /\ NotInValid(last.valid, value)
        THEN [st EXCEPT !.errors = Append(@,
                 FormatError(<<<<"Invalid value for option:">>, last.name>>)),
                        !.last = <<>>]
        ELSE StoreValue(st, name, multi, value)

\* One argument that does not start with '-'.
ScanValueArg(arg, st) ==
    LET pending == st.last # <<>>
        last == st.last[1]
        value == IF pending /\ last.type = "number" THEN ParseInt(arg) ELSE Str(arg)
        name == IF pending THEN last.name ELSE <<"_">>
        multi == ~pending \/ last.multiple
    IN  IF pending /\ last.type = "number" /\ ~IsInteger(value)
        THEN [st EXCEPT !.errors = Append(@,
                 FormatError(<<<<"Invalid value (non-number) for option:">>, last.name>>))]
        ELSE IF pending /\ Truthy(last.valid) /\ NotInValid(last.valid, value)
        THEN [st EXCEPT !.errors = Append(@,
                 FormatError(<<<<"Invalid value for option:">>, last.name>>))]
        ELSE StoreValue(st, name, multi, value)

\* Whether the argument is a key: arg[0] === '-'.
IsKeyArg(arg) == Len(arg) >= 1 /\ arg[1] = "-"

(* ------------------------------------------------------------------ *)
(* usage and its helpers                                                *)
(* ------------------------------------------------------------------ *)
Gray == 90
Green == 32
Yellow == 33

\* internals.color(name, code, enabled): the text wrapped in the escape
\* sequences of the colour, or the text itself.  "ESC" is the character \u001b.
Color(code, enabled, text) ==
    IF enabled
    THEN <<"ESC", "[">> \o NatToString(code) \o <<"m">> \o text \o <<"ESC", "[", "0", "m">>
    ELSE text

\* internals.getShortName: the first strictly shorter non-empty alias wins over
\* the name, and a later alias only when it is shorter still.
RECURSIVE GetShortNameFrom(_, _, _)
GetShortNameFrom(shortName, aliases, j) ==
    IF j > Len(aliases) THEN shortName
    ELSE IF aliases[j] # <<>> /\ Len(aliases[j]) < Len(shortName)
    THEN GetShortNameFrom(aliases[j], aliases, j + 1)
    ELSE GetShortNameFrom(shortName, aliases, j + 1)

GetShortName(shortName, aliases) == GetShortNameFrom(shortName, aliases, 1)

\* formattedName += ', --' + aliases[a] for every long name.
RECURSIVE AppendLongNames(_, _, _)
AppendLongNames(text, aliases, a) ==
    IF a > Len(aliases) THEN text
    ELSE AppendLongNames(text \o <<",", " ", "-", "-">> \o aliases[a], aliases, a + 1)

\* The column 1 text of one option, before colouring.
FormattedName(e) ==
    LET shortName == GetShortName(e.key, e.alias)
        longName == IF shortName = e.key THEN e.alias ELSE <<e.key>>
    IN  AppendLongNames(<<" ", " ", "-">> \o shortName, longName, 1)

\* The column 2 text of one option.
FormattedDesc(e, enabled) ==
    LET d0 == IF Truthy(e.description) THEN Color(Gray, enabled, e.description.v)
              ELSE <<>>
        d1 == IF Truthy(e.default)
              THEN d0 \o (IF Len(d0) > 0 THEN <<" ">> ELSE <<>>)
                      \o Color(Gray, enabled, <<"(">> \o JsString(e.default) \o <<")">>)
              ELSE d0
    IN  IF e.require
        THEN d1 \o (IF Len(d1) > 0 THEN <<" ">> ELSE <<>>)
                \o Color(Yellow, enabled,
                         <<"(", "r", "e", "q", "u", "i", "r", "e", "d", ")">>)
        ELSE d1

Spaces(n) == [j \in 1..n |-> " "]

\* internals.formatColumns: column 1 padded to its widest entry plus four.
FormatColumns(col1, col2) ==
    LET width == CHOOSE w \in {Len(col1[j]) : j \in 1..Len(col1)} :
                     \A j \in 1..Len(col1) : Len(col1[j]) <= w
        rows == [j \in 1..Len(col1) |->
                    col1[j] \o Spaces(width - Len(col1[j]) + 4) \o col2[j]]
    IN  Join(rows, <<"\n">>)

\* exports.usage(definition, usage, options): usage is '' when not given and
\* enabled is what internals.colors resolved options.colors to.
Usage(definition, usage, enabled) ==
    LET output == IF usage # <<>>
                  THEN <<"U", "s", "a", "g", "e", ":", " ">> \o usage \o <<"\n", "\n">>
                  ELSE <<"\n">>
        col1 == <<<<"O", "p", "t", "i", "o", "n", "s", ":">>>> \o
                [j \in 1..Len(definition) |->
                    Color(Green, enabled, FormattedName(definition[j]))]
        col2 == <<<<"\n">>>> \o
                [j \in 1..Len(definition) |-> FormattedDesc(definition[j], enabled)]
    IN  output \o FormatColumns(col1, col2)

(* ------------------------------------------------------------------ *)
(* Range expansion and the finalization pass of parse                   *)
(* ------------------------------------------------------------------ *)

\* nums.match(/(?:\d+\-\d+)|(?:\d+)/g): the matches from position p on, left to
\* right; the empty sequence stands for null (no match).
RECURSIVE RangeMatches(_, _)
RangeMatches(s, p) ==
    IF p > Len(s) THEN <<>>
    ELSE IF s[p] \notin Digits THEN RangeMatches(s, p + 1)
    ELSE LET n1 == DigitRun(s, p)
             q == p + n1
             n2 == IF q <= Len(s) /\ s[q] = "-" THEN DigitRun(s, q + 1) ELSE 0
         IN  IF n2 > 0
             THEN <<SubSeq(s, p, q + n2)>> \o RangeMatches(s, q + n2 + 1)
             ELSE <<SubSeq(s, p, q - 1)>> \o RangeMatches(s, q)

\* The numbers one match contributes: itself, or from..to in either direction.
ExpandRange(range) ==
    LET parts == Split(range, "-")
        from == ParseInt(parts[1]).v
    IN  IF Len(parts) = 2
        THEN LET to == ParseInt(parts[2]).v
             IN  IF from > to
                 THEN [j \in 1..(from - to + 1) |-> Num(from - j + 1)]
                 ELSE [j \in 1..(to - from + 1) |-> Num(from + j - 1)]
        ELSE <<Num(from)>>

RECURSIVE ExpandAll(_, _)
ExpandAll(ranges, n) ==
    IF n > Len(ranges) THEN <<>>
    ELSE ExpandRange(ranges[n]) \o ExpandAll(ranges, n + 1)

\* flags[name] read as the code reads it: undefined when there is no such key.
Get(flags, name) == IF name \in DOMAIN flags THEN flags[name] ELSE Undef

\* internals.parseRange(def, flags): the flags after it, and whether it threw
\* (ranges is null when nothing matches, and ranges.length is then a TypeError).
ParseRange(def, st) ==
    LET value == Get(st.flags, def.name)
        nums == Join(IF value.k = "array"
                     THEN [j \in 1..Len(value.v) |-> JsString(value.v[j])]
                     ELSE <<JsString(value)>>, <<",">>)
        ranges == RangeMatches(nums, 1)
    IN  IF ~Truthy(value) THEN st
        ELSE IF ranges = <<>> THEN [st EXCEPT !.thrown = TRUE]
        ELSE [st EXCEPT !.flags = Put(@, def.name, Arr(ExpandAll(ranges, 1)))]

\* FillAliases with the option's default copied in the place of its value.
RECURSIVE FillAliasesDefault(_, _, _)
FillAliasesDefault(flags, def, d) ==
    IF d > Len(def.alias) THEN flags
    ELSE FillAliasesDefault(Put(flags, def.alias[d], def.default), def, d + 1)

\* flags[alias] = flags[def.name] for every alias.
RECURSIVE FillAliases(_, _, _)
FillAliases(flags, def, d) ==
    IF d > Len(def.alias) THEN flags
    ELSE FillAliases(Put(flags, def.alias[d], Get(flags, def.name)), def, d + 1)

\* The loop over all names after the scan, from name j on; tty is what the
\* terminal probe answers when the usage text of a missing option is rendered.
RECURSIVE FinalizeFrom(_, _, _, _, _)
FinalizeFrom(definition, keys, j, st, tty) ==
    IF j > Len(definition) \/ st.thrown THEN st
    ELSE LET def == keys[ObjectKeys(definition)[j]]
             s1 == IF def.type = "range" THEN ParseRange(def, st) ELSE st
             f2 == IF Get(s1.flags, def.name).k = "undefined"
                   THEN Put(s1.flags, def.name, def.default)
                   ELSE s1.flags
             e3 == IF def.require /\ f2[def.name].k = "undefined"
                   THEN Append(s1.errors, Usage(definition, <<>>, tty))
                   ELSE s1.errors
         IN  IF s1.thrown THEN s1
             ELSE FinalizeFrom(definition, keys, j + 1,
                      [s1 EXCEPT !.flags = FillAliases(f2, def, 1), !.errors = e3],
                      tty)

(* ------------------------------------------------------------------ *)
(* The inputs: definitions and the tokens tried against each            *)
(* ------------------------------------------------------------------ *)
MaxArgs == 4

NoAlias == <<>>

\* The definition of examples/parse-example.js.
ExampleDefinition ==
    <<Entry(<<"n">>, <<<<"n", "a", "m", "e">>>>, "", FALSE, FALSE, Undef, Undef, Str(<<"I", "n", "p", "u", "t", " ", "y", "o", "u", "r", " ", "n", "a", "m", "e">>)),
      Entry(<<"p">>, <<<<"p", "a", "t", "h">>, <<"d", "i", "r">>>>, "", FALSE, FALSE, Undef, Undef, Str(<<"S", "p", "e", "c", "i", "f", "y", " ", "a", " ", "p", "a", "t", "h">>)),
      Entry(<<"t">>, <<<<"t", "i", "m", "e">>>>, "number", FALSE, TRUE, Undef, Undef, Str(<<"S", "p", "e", "c", "i", "f", "y", " ", "a", " ", "t", "i", "m", "e">>)),
      Entry(<<"h">>, <<<<"h", "e", "l", "p">>>>, "boolean", FALSE, FALSE, Undef, Undef, Str(<<"S", "h", "o", "w", " ", "h", "e", "l", "p">>))>>

ExampleTokens == {<<"-", "t", "5">>, <<"-", "n">>, <<"5">>, <<"-", "h">>, <<"-", "-", "t", "i", "m", "e">>}

\* A help option and an option that takes several values.
HelpDefinition ==
    <<Entry(<<"h">>, <<<<"h", "e", "l", "p">>>>, "help", FALSE, FALSE, Undef, Undef, Undef),
      Entry(<<"m">>, NoAlias, "", TRUE, FALSE, Undef, Undef, Undef)>>

HelpTokens == {<<"-", "h">>, <<"-", "-", "h", "e", "l", "p">>, <<"-", "m">>, <<"x">>, <<"y">>}

\* A number option named by a digit, a boolean option and a number option
\* that takes several values out of a valid set.
DigitDefinition ==
    <<Entry(<<"5">>, NoAlias, "number", FALSE, FALSE, Undef, Undef, Undef),
      Entry(<<"b">>, NoAlias, "boolean", FALSE, FALSE, Undef, Undef, Undef),
      Entry(<<"t">>, NoAlias, "number", TRUE, FALSE, Undef, Arr(<<Num(5)>>), Undef)>>

DigitTokens == {<<"-", "5", "5">>, <<"-", "b", "t", "5">>, <<"-", "t">>, <<"5">>, <<"7">>}

\* A required string option, and a required range option with a default
\* that takes several values.
RangeDefinition ==
    <<Entry(<<"q">>, NoAlias, "", FALSE, TRUE, Undef, Undef, Undef),
      Entry(<<"r">>, NoAlias, "range", TRUE, TRUE, Str(<<"1", "-", "3">>), Undef, Undef)>>

RangeTokens == {<<"-", "q">>, <<"-", "r">>, <<"3", "-", "1">>, <<"1", ",", "5">>, <<"x">>}

\* A required string option restricted to a valid set and a boolean option
\* with a default, against flags the definition does not declare.
StrictDefinition ==
    <<Entry(<<"s">>, NoAlias, "string", FALSE, TRUE, Undef, Arr(<<Str(<<"a">>)>>), Undef),
      Entry(<<"b">>, NoAlias, "boolean", FALSE, FALSE, Bool(TRUE), Undef, Undef)>>

StrictTokens == {<<"-", "z">>, <<"-">>, <<"-", "-">>, <<"-", "-", "h", "a", "s", "O", "w", "n", "P", "r", "o", "p", "e", "r", "t", "y">>, <<"a">>}

\* A required option whose aliases are a shorter and a longer name, and a
\* range option with an alias and a default.
AliasDefinition ==
    <<Entry(<<"p", "a", "t", "h">>, <<<<"p">>, <<"d", "i", "r">>>>, "", FALSE, TRUE, Undef, Undef, Undef),
      Entry(<<"l">>, <<<<"l", "i", "n", "e", "s">>>>, "range", FALSE, FALSE, Str(<<"2", "-", "3">>), Undef, Undef)>>

AliasTokens == {<<"-", "p">>, <<"-", "-", "d", "i", "r">>, <<"x">>, <<"-", "-", "l", "i", "n", "e", "s">>, <<"2", "-", "1">>}

Cases ==
    {[definition |-> ExampleDefinition, tokens |-> ExampleTokens],
     [definition |-> AliasDefinition, tokens |-> AliasTokens],
     [definition |-> HelpDefinition, tokens |-> HelpTokens],
     [definition |-> DigitDefinition, tokens |-> DigitTokens],
     [definition |-> RangeDefinition, tokens |-> RangeTokens],
     [definition |-> StrictDefinition, tokens |-> StrictTokens]}

SeqsUpTo(S, n) == UNION {[1..m -> S] : m \in 0..n}

(* ------------------------------------------------------------------ *)
(* The state machine: two calls of parse with the same options object   *)
(* ------------------------------------------------------------------ *)
VARIABLES
    definition,  \* the definition object the caller passes
    argv,        \* options.argv, the caller's array (args is the same array)
    argv0,       \* the content of options.argv before the first call
    call,        \* 1 or 2: which call of parse is running
    pc,          \* "start", "scan", "return", "done"
    keys,        \* the lookup table of the running call
    flags,       \* the result object of the running call
    i,           \* the scan loop's index (0-based)
    il,          \* the scan loop's limit
    last,        \* the option awaiting a value: <<>> or <<def>>
    errors,      \* the accumulated error messages
    help,        \* whether a help option was set
    result,      \* what the running call returned or raised
    first,       \* what the first call returned or raised
    isatty       \* Tty.isatty(1) && Tty.isatty(2): "unprobed", "true" or "false"

vars == <<definition, argv, argv0, call, pc, keys, flags, i, il, last, errors,
          help, result, first, isatty>>

NoResult == [k |-> "none", v |-> 0]
Returned(x) == [k |-> "flags", v |-> x]
Failure(msg) == [k |-> "error", v |-> msg]
Thrown == [k |-> "throw", v |-> <<"TypeError">>]
ValidationError == [k |-> "throw", v |-> <<"ValidationError">>]

Init ==
    /\ \E c \in Cases :
          /\ definition = c.definition
          /\ argv \in SeqsUpTo(c.tokens, MaxArgs)
    /\ argv0 = argv
    /\ call = 1
    /\ pc = "start"
    /\ keys = EmptyObject
    /\ flags = EmptyObject
    /\ i = 0
    /\ il = 0
    /\ last = <<>>
    /\ errors = <<>>
    /\ help = FALSE
    /\ result = NoResult
    /\ first = NoResult
    /\ isatty = "unprobed"

\* The scan state held in the variables.
Current == ScanState(flags, errors, help, last, argv, il, FALSE)

\* The variables after one step of the scan left it in st.
Store(st) ==
    /\ flags' = st.flags
    /\ errors' = st.errors
    /\ help' = st.help
    /\ last' = st.last
    /\ argv' = st.args
    /\ il' = st.il

\* parse up to the scan loop: validation, the lookup table, the seeded flags.
Begin ==
    /\ pc = "start"
    /\ IF SchemaAccepts(definition)
       THEN /\ keys' = BuildKeys(Validate(definition), 1, EmptyObject)
            /\ flags' = SeedFlags(Validate(definition), 1, EmptyObject)
            /\ pc' = "scan"
            /\ result' = NoResult
       ELSE /\ pc' = "done"
            /\ result' = ValidationError
            /\ UNCHANGED <<keys, flags>>
    /\ i' = 0
    /\ il' = Len(argv)
    /\ last' = <<>>
    /\ errors' = <<>>
    /\ help' = FALSE
    /\ UNCHANGED <<definition, argv, argv0, call, first, isatty>>

\* One iteration of the scan loop on an argument that starts with '-'.
ScanOption ==
    /\ pc = "scan"
    /\ i < il
    /\ IsKeyArg(argv[i + 1])
    /\ Store(ScanKey(keys, argv[i + 1], i, Current))
    /\ i' = i + 1
    /\ UNCHANGED <<definition, argv0, call, pc, keys, result, first, isatty>>

\* One iteration of the scan loop on a value.
ScanValue ==
    /\ pc = "scan"
    /\ i < il
    /\ ~IsKeyArg(argv[i + 1])
    /\ LET st == ScanValueArg(argv[i + 1], Current)
       IN  /\ Store(st)
           /\ IF st.thrown
              THEN pc' = "done" /\ result' = Thrown
              ELSE UNCHANGED <<pc, result>>
    /\ i' = i + 1
    /\ UNCHANGED <<definition, argv0, call, keys, first, isatty>>

\* The pass over all names after the scan.  The terminal is probed when a
\* usage text is rendered, and answers the same for the whole process.
Finalize ==
    /\ pc = "scan"
    /\ i >= il
    /\ \E tty \in (IF isatty = "unprobed" THEN BOOLEAN ELSE {isatty = "true"}) :
          LET st == FinalizeFrom(Validate(definition), keys, 1, Current, tty)
          IN  /\ Store(st)
              /\ isatty' = IF Len(st.errors) > Len(errors)
                            THEN (IF tty THEN "true" ELSE "false")
                            ELSE isatty
              /\ IF st.thrown
                 THEN pc' = "done" /\ result' = Thrown
                 ELSE pc' = "return" /\ UNCHANGED result
    /\ UNCHANGED <<definition, argv0, call, keys, i, first>>

\* Return without the help test: the first error whenever there is one.
ReturnFirstError ==
    /\ pc = "return"
    /\ result' = IF Len(errors) > 0 THEN Failure(errors[1]) ELSE Returned(flags)
    /\ pc' = "done"
    /\ UNCHANGED <<definition, argv, argv0, call, keys, flags, i, il, last,
                   errors, help, first, isatty>>

\* The return statement: the first error unless help was set, else the flags.
Return ==
    /\ pc = "return"
    /\ result' = IF Len(errors) > 0 /\ ~help THEN Failure(errors[1])
                 ELSE Returned(flags)
    /\ pc' = "done"
    /\ UNCHANGED <<definition, argv, argv0, call, keys, flags, i, il, last,
                   errors, help, first, isatty>>

\* The caller calls parse again with the same definition and options object.
CallAgain ==
    /\ pc = "done"
    /\ call = 1
    /\ first' = result
    /\ call' = 2
    /\ pc' = "start"
    /\ UNCHANGED <<definition, argv, argv0, keys, flags, i, il, last, errors,
                   help, result, isatty>>

Next == Begin \/ ScanOption \/ ScanValue \/ Finalize \/ Return \/ CallAgain

Spec == Init /\ [][Next]_vars

(* ------------------------------------------------------------------ *)
(* Vocabulary of the properties                                         *)
(* ------------------------------------------------------------------ *)
Idx == 1..Len(definition)

\* Entry j of the validated definition.
Def(j) == Validate(definition)[j]

\* The canonical name and the aliases of an entry.
NamesOf(e) == {e.key} \cup {e.alias[a] : a \in 1..Len(e.alias)}

DeclaredKeys == UNION {NamesOf(Def(j)) : j \in Idx}

\* The flags a token is broken into, <<>> for a value, '-' or '--'.
TokenFlags(arg) ==
    IF IsKeyArg(arg) /\ Len(arg) >= 2 /\ ~(arg[2] = "-" /\ Len(arg) <= 2)
    THEN OptsOf(arg)
    ELSE <<>>

\* Some token of the sequence names the entry, by any of its names.
Named(tokens, e) ==
    \E n \in 1..Len(tokens) :
        \E p \in 1..Len(TokenFlags(tokens[n])) : TokenFlags(tokens[n])[p] \in NamesOf(e)

\* An error message that is a usage rendering (every other message starts
\* with a literal of the scan).
IsUsageMessage(msg) == Len(msg) > 0 /\ msg[1] = "\n"

UsageFailures ==
    {Failure(Usage(Validate(definition), <<>>, tty)) : tty \in BOOLEAN}

(* ------------------------------------------------------------------ *)
(* C1                                                                   *)
(* ------------------------------------------------------------------ *)
\* C1: for every valid definition and every token sequence parse returns
\* normally, with a flags mapping or an error value; it never raises an
\* exception during the scan, range expansion or finalization.
C1_NeverThrows == result.k # "throw"

(* ------------------------------------------------------------------ *)
(* C2                                                                   *)
(* ------------------------------------------------------------------ *)
\* C2: when at least one error was accumulated and no help flag was set,
\* parse returns exactly the first accumulated error and no mapping; a
\* required-missing failure is returned only when the scan produced no error.
C2_FirstErrorReturned ==
    (pc = "done" /\ Len(errors) > 0 /\ ~help) =>
        /\ result = Failure(errors[1])
        /\ IsUsageMessage(result.v) => \A n \in 1..Len(errors) : IsUsageMessage(errors[n])

(* ------------------------------------------------------------------ *)
(* Steps of the scan seen from outside                                  *)
(* ------------------------------------------------------------------ *)
\* The argument the next iteration of the scan loop reads.
CurArg == argv[i + 1]

\* The flag looks up something that takes a value: not boolean, not help.
TakesValue(opt) ==
    KeysGet(keys, opt) # <<>> /\ KeysGet(keys, opt)[1].type \notin {"boolean", "help"}

\* The argument holds a flag out of names that is read while no option awaits
\* a value: none is pending when the argument is reached (pend is <<>>) and no
\* flag before it in the same argument takes a value.
ReadFree(arg, names, pend) ==
    /\ pend = <<>>
    /\ \E p \in 1..Len(TokenFlags(arg)) :
          /\ TokenFlags(arg)[p] \in names
          /\ \A q \in 1..(p - 1) : ~TakesValue(TokenFlags(arg)[q])

\* The value a value token stands for under the pending option.
ValueOf(arg, pend) ==
    IF pend # <<>> /\ pend[1].type = "number" THEN ParseInt(arg) ELSE Str(arg)

\* The token passes the number and valid checks of the pending option.
Accepts(arg, pend) ==
    pend # <<>> =>
        /\ pend[1].type = "number" => IsInteger(ParseInt(arg))
        /\ Truthy(pend[1].valid) => ~NotInValid(pend[1].valid, ValueOf(arg, pend))

(* ------------------------------------------------------------------ *)
(* C3                                                                   *)
(* ------------------------------------------------------------------ *)
\* C3 as stated: if a flag resolving to a help option occurs anywhere in the
\* token sequence, parse returns the flags mapping with that option set to
\* true, never a failure value.
C3_HelpAnywhere ==
    (pc = "done" /\ call = 1) =>
        \A j \in Idx :
            (Def(j).type = "help" /\ Named(argv0, Def(j))) =>
                /\ result.k = "flags"
                /\ \A n \in NamesOf(Def(j)) : result.v[n] = Bool(TRUE)

\* C3 amended: the help indicator is set exactly by a help flag that is read
\* while no option awaits a value, which also sets the option to true; once
\* it is set parse returns no failure value, and the mapping it returns has
\* a help option true under its name and every alias.
C3_Step ==
    /\ (pc = "scan" /\ i < il) =>
          /\ help' = (help \/ \E j \in Idx : /\ Def(j).type = "help"
                                             /\ ReadFree(CurArg, NamesOf(Def(j)), last))
          /\ \A j \in Idx :
                (Def(j).type = "help" /\ ReadFree(CurArg, NamesOf(Def(j)), last))
                => flags'[Def(j).key] = Bool(TRUE)
    /\ (help /\ pc # "done" /\ pc' = "done") =>
          /\ result'.k # "error"
          /\ result'.k = "flags" =>
                \E j \in Idx : /\ Def(j).type = "help"
                               /\ \A n \in NamesOf(Def(j)) : result'.v[n] = Bool(TRUE)

C3_HelpSuppressesErrors == [][C3_Step]_vars

\* Errors were accumulated, a help flag was read, and the mapping is returned.
C3_Witness == pc = "done" /\ help /\ Len(errors) > 0 /\ result.k = "flags"

(* ------------------------------------------------------------------ *)
(* C4                                                                   *)
(* ------------------------------------------------------------------ *)
IsPlainBoolean(e) == e.type = "boolean" /\ e.default.k = "undefined"

\* C4 as stated: the value of a boolean option without a default is true
\* exactly when some token names it, whatever precedes that token.
C4_TrueWhenNamed ==
    (pc = "return" /\ call = 1) =>
        \A j \in Idx :
            IsPlainBoolean(Def(j)) => flags[Def(j).key] = Bool(Named(argv0, Def(j)))

\* C4 amended: the value is seeded false, an iteration of the scan sets it
\* true exactly when a flag naming the option is read while no option awaits
\* a value, and finalization and the return keep it (and copy it to the
\* aliases).
C4_Step ==
    \A j \in Idx :
        IsPlainBoolean(Def(j)) =>
            LET key == Def(j).key
            IN  /\ (pc = "start" /\ pc' = "scan") => flags'[key] = Bool(FALSE)
                /\ (pc = "scan" /\ i < il) =>
                      flags'[key] =
                          Bool(flags[key].v \/ ReadFree(CurArg, NamesOf(Def(j)), last))
                /\ (pc = "scan" /\ i >= il) =>
                      /\ flags'[key] = flags[key]
                      /\ pc' = "return" =>
                            \A n \in NamesOf(Def(j)) : flags'[n] = flags[key]
                /\ (pc = "return" /\ result'.k = "flags") => result'.v[key] = flags[key]

C4_BooleanValue == [][C4_Step]_vars

\* A token names the boolean option and its value is false all the same: the
\* flag was read while another option awaited its value.
C4_Witness ==
    /\ pc = "return"
    /\ call = 1
    /\ \E j \in Idx : /\ IsPlainBoolean(Def(j))
                      /\ Named(argv0, Def(j))
                      /\ flags[Def(j).key] = Bool(FALSE)

(* ------------------------------------------------------------------ *)
(* C5                                                                   *)
(* ------------------------------------------------------------------ *)
\* The keys that collect values: '_' and every value-taking multiple option.
Collecting ==
    {<<"_">>} \cup {Def(j).key : j \in {n \in Idx : /\ Def(n).multiple
                                                    /\ Def(n).type \notin {"boolean", "help"}}}

IsRangeKey(d) == \E j \in Idx : Def(j).key = d /\ Def(j).type = "range"

\* C5: the values accepted for a multiple option (and the positional tokens
\* for '_') are stored as one sequence in the order the value tokens were
\* encountered: a call starts without the key, an accepted value token is
\* appended at the end (the first one gives a one-element sequence), no other
\* iteration of the scan changes the sequence, and finalization and the
\* return keep it (range expansion aside).
C5_Step ==
    \A d \in Collecting :
        /\ pc = "start" => d \notin DOMAIN flags'
        /\ (pc = "scan" /\ i < il) =>
              LET dest == IF last = <<>> THEN <<"_">> ELSE last[1].name
                  accepted == /\ ~IsKeyArg(CurArg)
                              /\ dest = d
                              /\ pc' = "scan"
                              /\ errors' = errors
                  before == IF d \in DOMAIN flags THEN flags[d].v ELSE <<>>
              IN  IF accepted
                  THEN flags'[d] = Arr(Append(before, ValueOf(CurArg, last)))
                  ELSE Get(flags', d) = Get(flags, d)
        /\ (pc = "scan" /\ i >= il /\ d \in DOMAIN flags /\ ~IsRangeKey(d)) =>
              flags'[d] = flags[d]
        /\ (pc = "return" /\ result'.k = "flags") => result'.v = flags

C5_EncounterOrder == [][C5_Step]_vars

\* A multiple option holds two different values, in the order of the tokens.
C5_Witness ==
    /\ pc = "return"
    /\ call = 1
    /\ \E j \in Idx :
          /\ Def(j).multiple
          /\ Def(j).type = "string"
          /\ Def(j).key \in DOMAIN flags
          /\ flags[Def(j).key].k = "array"
          /\ Len(argv0) = 4
          /\ flags[Def(j).key].v = <<Str(argv0[2]), Str(argv0[4])>>
          /\ argv0[2] # argv0[4]

(* ------------------------------------------------------------------ *)
(* C6                                                                   *)
(* ------------------------------------------------------------------ *)
MultipleValuesError(name) ==
    FormatError(<<<<"Multiple values are not allowed for option:">>, name>>)

\* The number of flags of the token sequence that name the entry.
Occurrences(tokens, e) ==
    Cardinality(UNION {{<<n, p>> : p \in {q \in 1..Len(TokenFlags(tokens[n])) :
                                              TokenFlags(tokens[n])[q] \in NamesOf(e)}} :
                       n \in 1..Len(tokens)})

C6_Step ==
    /\ ( /\ pc = "scan" /\ i < il
         /\ ~IsKeyArg(CurArg)
         /\ last # <<>>
         /\ ~last[1].multiple
         /\ last[1].name \in DOMAIN flags )
       => /\ flags' = flags
          /\ (pc' = "scan" /\ Accepts(CurArg, last)) =>
                errors' = Append(errors, MultipleValuesError(last[1].name))
    /\ (pc = "return" /\ Len(errors) > 0 /\ ~help) => result' = Failure(errors[1])

C7_CombinedShortNumber ==
    (pc = "done" /\ call = 1 /\ Len(argv0) = 1) =>
        \A j \in Idx :
            LET e == Def(j)
                tok == argv0[1]
            IN  ( /\ e.type = "number" /\ ~e.multiple /\ e.valid.k = "undefined"
                  /\ Len(e.key) = 1
                  /\ Len(tok) >= 3 /\ tok[1] = "-" /\ tok[2] = e.key[1]
                  /\ \A q \in 3..Len(tok) : tok[q] \in Digits )
                => /\ result.k = "flags"
                   /\ result.v[e.key] = Num(DecimalValue(Slice(tok, 2)))
                   /\ <<"_">> \notin DOMAIN result.v

(* ------------------------------------------------------------------ *)
(* C8                                                                   *)
(* ------------------------------------------------------------------ *)
\* C8: if a required option is still undefined after the scan and after its
\* default was applied, and there is no earlier error and no help flag, parse
\* returns a failure whose message is the usage rendering of the definition;
\* an option that received a value or has a defined default never triggers it.
C8_RequiredMissing ==
    pc = "done" =>
        /\ ( /\ ~help
             /\ \A n \in 1..Len(errors) : IsUsageMessage(errors[n])
             /\ \E j \in Idx : /\ Def(j).require
                               /\ Def(j).key \in DOMAIN flags
                               /\ flags[Def(j).key].k = "undefined" )
           => result \in UsageFailures
        /\ (result.k = "error" /\ IsUsageMessage(result.v))
           => \E j \in Idx : /\ Def(j).require
                             /\ flags[Def(j).key].k = "undefined"

(* ------------------------------------------------------------------ *)
(* C9                                                                   *)
(* ------------------------------------------------------------------ *)
\* C9: calling parse twice in succession with the same definition and the
\* same options object returns structurally identical results.
C9_Idempotent == (pc = "done" /\ call = 2) => result = first

(* ------------------------------------------------------------------ *)
(* C10                                                                  *)
(* ------------------------------------------------------------------ *)
\* C10: a flag whose name is not a key of the lookup table yields the failure
\* 'Unknown option: <flag>' (stated for a sequence of that one flag), and
\* every key of the flags mapping is a declared name, a declared alias or '_'.
C10_UnknownOption ==
    /\ (pc = "done" /\ call = 1 /\ Len(argv0) = 1 /\ Len(TokenFlags(argv0[1])) = 1
          /\ TokenFlags(argv0[1])[1] \notin DOMAIN keys)
       => result = Failure(FormatError(<<<<"Unknown option:">>, TokenFlags(argv0[1])[1]>>))
    /\ DOMAIN flags \subseteq DeclaredKeys \cup {<<"_">>}

(* ------------------------------------------------------------------ *)
(* C11                                                                  *)
(* ------------------------------------------------------------------ *)
\* The names and aliases of the definition are all distinct.
DistinctNames ==
    /\ \A j \in Idx : \A a, b \in 1..Len(Def(j).alias) :
          /\ Def(j).alias[a] # Def(j).key
          /\ a # b => Def(j).alias[a] # Def(j).alias[b]
    /\ \A j, n \in Idx : j # n => NamesOf(Def(j)) \cap NamesOf(Def(n)) = {}

\* The aliases of an entry that some flag of the token sequence spells.
AliasesUsed(tokens, e) ==
    {a \in 1..Len(e.alias) :
        \E n \in 1..Len(tokens) :
            \E p \in 1..Len(TokenFlags(tokens[n])) : TokenFlags(tokens[n])[p] = e.alias[a]}

\* C11: with all names and aliases distinct, every mapping parse returns
\* holds under each alias exactly the value it holds under the option's
\* canonical name; during the scan no alias key is written and a pending
\* option is known by its canonical name, so a value supplied through an
\* alias is stored under the canonical name.
C11_AliasesAgree ==
    DistinctNames =>
        /\ (pc = "done" /\ result.k = "flags") =>
              \A j \in Idx : \A n \in NamesOf(Def(j)) :
                  /\ n \in DOMAIN result.v
                  /\ result.v[n] = result.v[Def(j).key]
        /\ pc = "scan" =>
              /\ \A j \in Idx : \A a \in 1..Len(Def(j).alias) :
                    Def(j).alias[a] \notin DOMAIN flags
              /\ (last # <<>> /\ last[1].name \in DeclaredKeys) =>
                    \E j \in Idx : Def(j).key = last[1].name

\* A value was supplied through an alias and the returned mapping holds it
\* under the canonical name.
C11_Witness ==
    /\ pc = "done"
    /\ call = 1
    /\ result.k = "flags"
    /\ Len(argv0) = 2
    /\ \E j \in Idx :
          /\ AliasesUsed(argv0, Def(j)) # {}
          /\ Def(j).type = "string"
          /\ result.v[Def(j).key] = Str(argv0[2])

(* ------------------------------------------------------------------ *)
(* C12                                                                  *)
(* ------------------------------------------------------------------ *)
\* Every integer from a to b inclusive, descending when a > b.
RECURSIVE FromTo(_, _)
FromTo(a, b) ==
    IF a = b THEN <<Num(a)>>
    ELSE IF a > b THEN <<Num(a)>> \o FromTo(a - 1, b)
    ELSE <<Num(a)>> \o FromTo(a + 1, b)

\* The reference expansion of a text, read from the left: characters that
\* are not digits are passed over, a maximal 'digits-digits' contributes its
\* interval and a maximal 'digits' contributes itself.
RECURSIVE ReferenceExpansion(_)
ReferenceExpansion(s) ==
    IF s = <<>> THEN <<>>
    ELSE IF Head(s) \notin Digits THEN ReferenceExpansion(Tail(s))
    ELSE LET a == DigitRun(s, 1)
             rest == Slice(s, a)
             b == IF rest # <<>> /\ rest[1] = "-" THEN DigitRun(rest, 2) ELSE 0
         IN  IF b > 0
             THEN FromTo(DecimalValue(SubSeq(s, 1, a)), DecimalValue(SubSeq(rest, 2, b + 1)))
                      \o ReferenceExpansion(Slice(rest, b + 1))
             ELSE <<Num(DecimalValue(SubSeq(s, 1, a)))>> \o ReferenceExpansion(rest)

\* The supplied value(s) of an option joined with commas.
CommaJoined(value) ==
    IF value.k = "array"
    THEN Join([j \in 1..Len(value.v) |-> value.v[j].v], <<",">>)
    ELSE value.v

\* C12: the finalization pass replaces the value(s) supplied for a range
\* option by their reference expansion ("3-1" gives [3,2,1], "1-3" gives
\* [1,2,3], "1,5" gives [1,5]).
C12_Step ==
    /\ ReferenceExpansion(<<"3", "-", "1">>) = <<Num(3), Num(2), Num(1)>>
    /\ ReferenceExpansion(<<"1", "-", "3">>) = <<Num(1), Num(2), Num(3)>>
    /\ ReferenceExpansion(<<"1", ",", "5">>) = <<Num(1), Num(5)>>
    /\ (pc = "scan" /\ i >= il) =>
          \A j \in Idx :
              (Def(j).type = "range" /\ Def(j).key \in DOMAIN flags) =>
                  /\ pc' = "return"
                  /\ flags'[Def(j).key] =
                         Arr(ReferenceExpansion(CommaJoined(flags[Def(j).key])))

C12_ReferenceExpansion == [][C12_Step]_vars

(* ------------------------------------------------------------------ *)
(* C13                                                                  *)
(* ------------------------------------------------------------------ *)
\* C13: a value token that is rejected while an option is pending (not an
\* integer for a number option, or not a member of the valid set) is
\* discarded without being stored and the scanner returns to FREE: no option
\* is pending when the next token is read.  (Stated for the caller's own
\* tokens: no token was spliced in so far.)
C13_Step ==
    ( /\ pc = "scan" /\ i < il
      /\ argv = argv0
      /\ ~IsKeyArg(CurArg)
      /\ last # <<>>
      /\ ~Accepts(CurArg, last) )
    => /\ flags' = flags
       /\ last' = <<>>

C13_RejectedValueFrees == [][C13_Step]_vars

(* ------------------------------------------------------------------ *)
(* C14                                                                  *)
(* ------------------------------------------------------------------ *)
\* The flag looks up a number option.
IsNumberFlag(opt) == KeysGet(keys, opt) # <<>> /\ KeysGet(keys, opt)[1].type = "number"

\* C14: when a single-dash combined token is read while no option is pending
\* and its flag p is the first that takes a value and is number-typed, the
\* token spliced in right after it is everything after character p of the
\* flags, the option becomes pending, and the boolean and help flags to its
\* left are set.  (Stated for p > 1; a number flag in the first position is
\* the case of C7.)
C14_Step ==
    ( /\ pc = "scan" /\ i < il
      /\ last = <<>>
      /\ IsKeyArg(CurArg) /\ Len(CurArg) >= 3 /\ CurArg[2] # "-" )
    => \A p \in 2..Len(TokenFlags(CurArg)) :
           ( /\ IsNumberFlag(TokenFlags(CurArg)[p])
             /\ \A q \in 1..(p - 1) : ~TakesValue(TokenFlags(CurArg)[q]) )
           => /\ argv' = Splice(argv, i + 1, Slice(CurArg, p + 1))
              /\ il' = il + 1
              /\ last' = KeysGet(keys, TokenFlags(CurArg)[p])
              /\ \A q \in 1..(p - 1) :
                    KeysGet(keys, TokenFlags(CurArg)[q]) # <<>> =>
                        flags'[KeysGet(keys, TokenFlags(CurArg)[q])[1].name] = Bool(TRUE)

C14_SplicedRemainder == [][C14_Step]_vars

(* ------------------------------------------------------------------ *)
(* C15                                                                  *)
(* ------------------------------------------------------------------ *)
\* An ordered sequence of integers.
IsIntegerSequence(x) ==
    x.k = "array" /\ \A n \in 1..Len(x.v) : x.v[n].k = "number"

\* C15: in every mapping parse returns, the value of a range option is
\* undefined or a sequence of integers, whether it came from value tokens
\* or from the option's default.
C15_RangeValueShape ==
    (pc = "done" /\ result.k = "flags") =>
        \A j \in Idx :
            Def(j).type = "range" =>
                \/ result.v[Def(j).key].k = "undefined"
                \/ IsIntegerSequence(result.v[Def(j).key])

(* ------------------------------------------------------------------ *)
(* C16                                                                  *)
(* ------------------------------------------------------------------ *)
\* The value is a member of the valid set.
IsMember(valid, value) == \E n \in 1..Len(valid.v) : StrictEq(valid.v[n], value)

\* The value-taking options that have a valid set.
Restricted ==
    {j \in Idx : Truthy(Def(j).valid) /\ Def(j).type \notin {"boolean", "help"}}

\* Every value held for the option is a member of its valid set.
HeldAreMembers(j) ==
    Def(j).key \in DOMAIN flags =>
        IF flags[Def(j).key].k = "array"
        THEN \A n \in 1..Len(flags[Def(j).key].v) :
                 IsMember(Def(j).valid, flags[Def(j).key].v[n])
        ELSE IsMember(Def(j).valid, flags[Def(j).key])

\* C16: in every scanner state the values held for an option with a valid
\* set are members of it; a value token read for such an option changes the
\* flags only if its value (the integer it converts to, for a number option)
\* is a member, and a token whose value is not a member changes nothing and
\* adds the error 'Invalid value for option: <name>'.
C16_Step ==
    /\ pc = "scan" => \A j \in Restricted : HeldAreMembers(j)
    /\ ( /\ pc = "scan" /\ i < il
         /\ ~IsKeyArg(CurArg)
         /\ last # <<>>
         /\ Truthy(last[1].valid) )
       => LET value == ValueOf(CurArg, last)
              converts == last[1].type = "number" => IsInteger(value)
          IN  /\ flags' # flags => (converts /\ IsMember(last[1].valid, value))
              /\ (converts /\ ~IsMember(last[1].valid, value)) =>
                    /\ flags' = flags
                    /\ errors' = Append(errors,
                           FormatError(<<<<"Invalid value for option:">>, last[1].name>>))

C16_OnlyValidStored == [][C16_Step]_vars

\* One value token was refused for an option with a valid set and another
\* was stored for it.
C16_Witness ==
    /\ pc = "return"
    /\ call = 1
    /\ \E j \in Restricted :
          /\ Def(j).key \in DOMAIN flags
          /\ flags[Def(j).key].k = "array"
          /\ Len(flags[Def(j).key].v) = 1
          /\ \E n \in 1..Len(errors) :
                errors[n] = FormatError(<<<<"Invalid value for option:">>, Def(j).key>>)

(* ------------------------------------------------------------------ *)
(* C17                                                                  *)
(* ------------------------------------------------------------------ *)
\* The shortest identifier among the canonical name and the aliases; a tie
\* keeps the canonical name (and, among aliases, the earlier one).
ShortestName(e) ==
    LET shorter == {a \in 1..Len(e.alias) :
                       /\ Len(e.alias[a]) < Len(e.key)
                       /\ \A b \in 1..Len(e.alias) :
                             \/ Len(e.alias[a]) < Len(e.alias[b])
                             \/ (Len(e.alias[a]) = Len(e.alias[b]) /\ a <= b)}
    IN  IF shorter = {} THEN e.key ELSE e.alias[CHOOSE a \in shorter : TRUE]

\* The text holds the piece at some position.
Contains(text, piece) ==
    \E p \in 1..(Len(text) - Len(piece) + 1) :
        SubSeq(text, p, p + Len(piece) - 1) = piece

\* The column 1 entry of a row of a usage text: what the colour codes
\* enclose, or what precedes the padding.
Column1(row) ==
    IF row[1] = "ESC"
    THEN LET q == CHOOSE q \in 2..Len(row) :
                      row[q] = "ESC" /\ \A r \in 2..(q - 1) : row[r] # "ESC"
         IN  SubSeq(row, 6, q - 1)
    ELSE LET p == CHOOSE p \in 1..Len(row) :
                      /\ SubSeq(row, p, p + 3) = Spaces(4)
                      /\ \A r \in 1..(p - 1) : SubSeq(row, r, r + 3) # Spaces(4)
         IN  SubSeq(row, 1, p - 1)

\* The length of the entry that names every name of the option once.
FullEntryLength(e) ==
    LET long == NamesOf(e) \ {ShortestName(e)}
        RECURSIVE Sum(_)
        Sum(S) == IF S = {} THEN 0
                  ELSE LET n == CHOOSE n \in S : TRUE
                       IN  4 + Len(n) + Sum(S \ {n})
    IN  3 + Len(ShortestName(e)) + Sum(long)

\* C17: in every usage text parse renders, the column 1 entry of each
\* option is '  -' and its shortest name, followed by one ', --<name>' item
\* for every other name of the option and nothing else.
C17_EveryNameShown ==
    \A n \in 1..Len(errors) :
        IsUsageMessage(errors[n]) =>
            \A j \in Idx :
                LET e == Def(j)
                    entry == Column1(Split(errors[n], "\n")[3 + j])
                IN  /\ SubSeq(entry, 1, 3 + Len(ShortestName(e)))
                           = <<" ", " ", "-">> \o ShortestName(e)
                    /\ \A name \in NamesOf(e) \ {ShortestName(e)} :
                           Contains(entry, <<",", " ", "-", "-">> \o name)
                    /\ Len(entry) = FullEntryLength(e)

(* ------------------------------------------------------------------ *)
(* C18                                                                  *)
(* ------------------------------------------------------------------ *)
MissingValueError(name) ==
    FormatError(<<<<"Invalid option:">>, name, <<"missing value">>>>)

\* The errors a key token adds while an option is pending: the error of a
\* bare '-' or '--', or one 'missing value' error for each of its flags.
PendingKeyErrors(arg, name) ==
    IF Len(arg) < 2 THEN <<FormatError(<<<<"Invalid empty '-' option">>>>)>>
    ELSE IF Len(TokenFlags(arg)) = 0 THEN <<FormatError(<<<<"Invalid empty '--' option">>>>)>>
    ELSE [p \in 1..Len(TokenFlags(arg)) |-> MissingValueError(name)]

\* C18: while an option is pending, a key token changes neither the pending
\* option nor the flags, the help indicator or the token sequence, and adds
\* only its own error ('-', '--') or one 'missing value' error per flag; a
\* value token that is not stored changes neither the pending option nor the
\* flags, and the pending option is cleared exactly by a value token that is
\* stored under it.
C18_Step ==
    (pc = "scan" /\ i < il /\ last # <<>>) =>
        /\ IsKeyArg(CurArg) =>
              /\ last' = last
              /\ flags' = flags
              /\ help' = help
              /\ argv' = argv /\ il' = il
              /\ errors' = errors \o PendingKeyErrors(CurArg, last[1].name)
        /\ ~IsKeyArg(CurArg) =>
              /\ last' \in {last, <<>>}
              /\ (last' = <<>>) = (flags' # flags)
              /\ last' = <<>> =>
                    /\ errors' = errors
                    /\ \A d \in DOMAIN flags : d # last[1].name => flags'[d] = flags[d]
                    /\ flags'[last[1].name] \in
                           {ValueOf(CurArg, last),
                            Arr(Append(IF last[1].name \in DOMAIN flags
                                       THEN flags[last[1].name].v ELSE <<>>,
                                       ValueOf(CurArg, last)))}

C18_PendingKept == [][C18_Step]_vars

\* A help flag was read while an option was pending: it added the option's
\* 'missing value' error, set nothing, and the option is pending still.
C18_Witness ==
    /\ pc = "return"
    /\ call = 1
    /\ last # <<>>
    /\ ~help
    /\ Len(argv0) = 2
    /\ errors = <<MissingValueError(last[1].name)>>
    /\ \E j \in Idx : /\ Def(j).type = "help"
                      /\ NamesOf(Def(j)) \cap {TokenFlags(argv0[2])[p] : p \in 1..Len(TokenFlags(argv0[2]))} # {}
                      /\ Get(flags, Def(j).key) = Undef

(* ------------------------------------------------------------------ *)
(* C19                                                                  *)
(* ------------------------------------------------------------------ *)
\* C19: parse does not modify its inputs: no step changes the definition,
\* and when the first call ends options.argv holds the elements it held
\* before the call, in the same order.
C19_Step ==
    /\ definition' = definition
    /\ (call = 1 /\ pc' = "done") => argv' = argv0

C19_InputsUnmodified == [][C19_Step]_vars

(* ------------------------------------------------------------------ *)
(* C20                                                                  *)
(* ------------------------------------------------------------------ *)
\* C20: every iteration of the scan advances by one token and grows the
\* token sequence by at most one token; a token is spliced in only by a
\* token read while no option is pending, it is put right after that token
\* and leaves an option pending, and a token read while an option is pending
\* splices nothing; so the scan of the first call reads at most twice the
\* caller's tokens, and once they are read the scan is left.
C20_Step ==
    /\ (pc = "scan" /\ i < il) =>
          /\ i' = i + 1
          /\ il' \in {il, il + 1}
          /\ Len(argv') = il'
          /\ il' = il => argv' = argv
          /\ il' = il + 1 =>
                /\ last = <<>>
                /\ last' # <<>>
                /\ argv' = Splice(argv, i + 1, argv'[i + 2])
    /\ (pc = "scan" /\ i >= il) => pc' # "scan"
    /\ (pc = "scan" /\ call = 1) =>
          /\ i <= il
          /\ il <= 2 * Len(argv0)
          /\ il - Len(argv0) <= i

C20_ScanTerminates == [][C20_Step]_vars

\* The scan of the first call read twice as many tokens as the caller gave.
C20_Witness ==
    /\ pc = "return"
    /\ call = 1
    /\ Len(argv0) = 2
    /\ i = 2 * Len(argv0)

====
